---- MODULE Spec2Model ----
(***************************************************************************)
(* Model of app.py: the Flask handlers of the MLS dashboard and the one    *)
(* table, dbo.MLS_Master_Data1, they read and write.                       *)
(*                                                                         *)
(* The table is a set of rows; a row maps every column to a string or to   *)
(* None (SQL NULL, Python None).  A JSON body or an HTML form is a         *)
(* function from the keys it carries to their values; every body is a JSON *)
(* object.  Each handler is one action: validation, get_connection, the    *)
(* single statement, commit, the response and the finally block.  The      *)
(* dropdown lists of the list view (get_unique_values) are left out: they  *)
(* read the table and change nothing.                                      *)
(***************************************************************************)
EXTENDS FiniteSets, Integers, Sequences, TLC

VARIABLES
    table,        \* the rows of dbo.MLS_Master_Data1
    before,       \* the rows as they were when the last request arrived
    last,         \* the last request, its response and the handles it used
    openConns,    \* connections opened and not closed by returned handlers
    openCursors   \* cursors opened and not closed by returned handlers

vars == <<table, before, last, openConns, openCursors>>

-----------------------------------------------------------------------------
(* Values *)

\* Python None, JSON null and SQL NULL
None == "<None>"

\* what get_details returns when no row matches (None in place of a row)
NoRow == <<>>

\* Python truthiness of a string or None: `if x`
Truthy(x) == x # None /\ x # ""

SUMMARY_COLS ==
    {"MLS_Point_Code", "MLS_Point_Name", "Mandal_Name", "District_Name",
     "MLS_Point_Incharge_Name", "Storage_Capacity_in"}

FILTER_COLS ==
    {"District_Name", "Mandal_Name", "MLS_Point_Name", "MLS_Point_Code"}

EDITABLE_COLS ==
    {"S_No", "District_Code", "District_Name", "Mandal_Code", "Mandal_Name",
     "MLS_Point_Code", "MLS_Point_Name", "MLS_Point_Latitude",
     "MLS_Point_Logitude", "MLS_Point_Address", "MLS_Point_Incharge_Name",
     "MLS_Point_Incharge_CFMS_Corporation_EMP", "Storage_Capacity_in",
     "Contact_Number", "Email_ID", "Status", "Last_Updated"}

\* the columns of dbo.MLS_Master_Data1; MLS_Point_Code is its primary key:
\* it is never NULL and no two rows share it
TableCols == EDITABLE_COLS

\* dict.get(key): the value, or None when the key is absent
DictGet(data, key) == IF key \in DOMAIN data THEN data[key] ELSE None

\* request.form.get(key, default)
FormGet(form, key, default) == IF key \in DOMAIN form THEN form[key] ELSE default

-----------------------------------------------------------------------------
(* Bounds and the values the requests are drawn from *)

\* number of distinct point codes the requests use
NumCodes == 2

AllCodes == <<"MLS001", "MLS002", "MLS003">>

PointCodes == {AllCodes[i] : i \in 1..NumCodes}

\* a column name outside EDITABLE_COLS
ForeignCol == "Remarks"

\* ways the database can fail a handler: get_connection raises, execute raises
\* an error that is no integrity error, execute raises an integrity error
\* other than the primary key's, commit raises
Faults == {"connect", "execute", "integrity", "commit"}

\* marks a key that a body leaves out
Absent == "<absent>"

\* the dict with the keys of f that are not marked Absent
MkDict(f) == [k \in {k \in DOMAIN f : f[k] # Absent} |-> f[k]]

\* all dicts over subsets of the keys, each key with one of its values
Dicts(keys, Choices(_)) ==
    UNION {{d \in [ks -> UNION {Choices(k) : k \in ks}] :
                \A k \in ks : d[k] \in Choices(k)} : ks \in SUBSET keys}

MkRow(code, name, district, mandal) ==
    [c \in TableCols |->
        CASE c = "MLS_Point_Code" -> code
          [] c = "MLS_Point_Name" -> name
          [] c = "District_Name" -> district
          [] c = "Mandal_Name" -> mandal
          [] OTHER -> None]

-----------------------------------------------------------------------------
(* The database *)

\* WHERE [MLS_Point_Code] = ?  (NULL equals nothing)
RowsWithCode(t, code) ==
    {r \in t : r["MLS_Point_Code"] # None /\ r["MLS_Point_Code"] = code}

\* the connection's outcome of one statement: the error it raised ("none",
\* "pk" for "Violation of PRIMARY KEY constraint", "integrity" for another
\* integrity error, "error" for any other), the table it leaves and
\* cursor.rowcount
Outcome(raised, t, rowcount) == [raised |-> raised, table |-> t, rowcount |-> rowcount]

\* ExecUpdate on a table whose MLS_Point_Code is no key
ExecUpdate_no_key(t, column_name, new_value, mls_point_code) ==
    LET hit == RowsWithCode(t, mls_point_code)
    IN  IF column_name \notin TableCols THEN Outcome("error", t, 0)
        ELSE Outcome("none",
                     (t \ hit) \cup {[r EXCEPT ![column_name] = new_value] : r \in hit},
                     Cardinality(hit))

\* ExecUpdate whose statement lacks its WHERE clause
ExecUpdate_every_row(t, column_name, new_value, mls_point_code) ==
    IF column_name \notin TableCols THEN Outcome("error", t, 0)
    ELSE IF column_name = "MLS_Point_Code" /\ Cardinality(t) > 1 THEN Outcome("pk", t, 0)
    ELSE Outcome("none", {[r EXCEPT ![column_name] = new_value] : r \in t}, Cardinality(t))

\* UPDATE dbo.MLS_Master_Data1 SET <column_name> = ? WHERE [MLS_Point_Code] = ?
\* A column the table lacks is an error.  A new key that is NULL or that
\* another row holds violates the primary key; the statement then changes
\* nothing.
ExecUpdate(t, column_name, new_value, mls_point_code) ==
    LET hit == RowsWithCode(t, mls_point_code)
        t2  == (t \ hit) \cup {[r EXCEPT ![column_name] = new_value] : r \in hit}
    IN  IF column_name \notin TableCols THEN Outcome("error", t, 0)
        ELSE IF hit = {} THEN Outcome("none", t, 0)
        ELSE IF column_name = "MLS_Point_Code" /\ new_value = None
            THEN Outcome("integrity", t, 0)
        ELSE IF column_name = "MLS_Point_Code"
                /\ RowsWithCode(t \ hit, new_value) # {}
            THEN Outcome("pk", t, 0)
        ELSE Outcome("none", t2, Cardinality(hit))

\* INSERT INTO dbo.MLS_Master_Data1 (<cols>) VALUES (<values>)
ExecInsert(t, cols, data) ==
    LET row == [c \in TableCols |-> IF c \in cols THEN data[c] ELSE None]
    IN  IF row["MLS_Point_Code"] = None THEN Outcome("integrity", t, 0)
        ELSE IF RowsWithCode(t, row["MLS_Point_Code"]) # {} THEN Outcome("pk", t, 0)
        ELSE Outcome("none", t \cup {row}, 1)

\* ExecDelete whose statement lacks its WHERE clause
ExecDelete_every_row(t, mls_point_code) == Outcome("none", {}, Cardinality(t))

\* DELETE FROM dbo.MLS_Master_Data1 WHERE [MLS_Point_Code] = ?
ExecDelete(t, mls_point_code) ==
    LET hit == RowsWithCode(t, mls_point_code)
    IN  Outcome("none", t \ hit, Cardinality(hit))

-----------------------------------------------------------------------------
(* Reading *)

\* Condition without the test for "All"
Condition_no_sentinel(column, arg) ==
    IF Truthy(arg) THEN {<<column, arg>>} ELSE {}

\* one entry of `conditions`: the argument is truthy and not "All"
Condition(column, arg) ==
    IF Truthy(arg) /\ arg # "All" THEN {<<column, arg>>} ELSE {}

\* get_filtered_summary: SELECT * with the conjunction of the conditions as
\* its WHERE clause (NULL equals nothing); an empty frame when the query fails
get_filtered_summary(t, district, mandal, mls_name, mls_code, failed) ==
    LET conditions ==
            Condition("District_Name", district)
            \cup Condition("Mandal_Name", mandal)
            \cup Condition("MLS_Point_Name", mls_name)
            \cup Condition("MLS_Point_Code", mls_code)
    IN  IF failed THEN {}
        ELSE {r \in t : \A cond \in conditions :
                    r[cond[1]] # None /\ r[cond[1]] = cond[2]}

\* get_details: the first row with the code as a dict, None when there is
\* none or when the query fails
get_details(t, mls_code, failed) ==
    LET df == RowsWithCode(t, mls_code)
    IN  IF failed \/ df = {} THEN NoRow ELSE CHOOSE r \in df : TRUE

-----------------------------------------------------------------------------
(* Responses and handles *)

\* what a handler leaves behind: the request (op, data), the fault the
\* database showed it ("none" when it never reached the database), the response
\* (status, message, records, info) and the handles it used: connections
\* obtained, cursors obtained, execute calls made, commits completed
Response(op, data, fault, status, message, records, info, use) ==
    [op |-> op, data |-> data, fault |-> fault,
     status |-> status, message |-> message, records |-> records, info |-> info,
     opened |-> use.opened, cursors |-> use.cursors,
     executed |-> use.executed, commits |-> use.commits]

Use(opened, cursors, executed, commits) ==
    [opened |-> opened, cursors |-> cursors, executed |-> executed, commits |-> commits]

\* a handler that returns before `conn = None`
NoUse == Use(0, 0, 0, 0)

\* finally_close that closes the cursor and forgets the connection
finally_close_cursor_only(conn, cursor) ==
    [conns |-> 0, cursors |-> IF cursor THEN 1 ELSE 0]

\* the finally block: `if cursor: cursor.close()`, `if conn: conn.close()`;
\* the number of connections and of cursors it closes
finally_close(conn, cursor) ==
    [conns |-> IF conn THEN 1 ELSE 0, cursors |-> IF cursor THEN 1 ELSE 0]

\* the handles a handler leaves open: those it obtained less those its
\* finally block closed
Release(use) ==
    LET closed == finally_close(use.opened > 0, use.cursors > 0)
    IN  /\ openConns' = openConns + use.opened - closed.conns
        /\ openCursors' = openCursors + use.cursors - closed.cursors

\* get_connection of db_config: a connection, unless the database cannot be
\* reached and it raises
get_connection(fault) == IF fault = "connect" THEN "raised" ELSE "connection"

\* try: get_connection, cursor, execute, commit.  The outcome of the
\* statement `stmt` under the fault the database shows, with the handles used
Attempt(t, stmt, fault) ==
    IF get_connection(fault) = "raised"
        THEN [out |-> Outcome("error", t, 0), use |-> Use(0, 0, 0, 0)]
    ELSE IF fault = "execute"
        THEN [out |-> Outcome("error", t, 0), use |-> Use(1, 1, 1, 0)]
    ELSE IF fault = "integrity"
        THEN [out |-> Outcome("integrity", t, 0), use |-> Use(1, 1, 1, 0)]
    ELSE IF stmt.raised # "none"
        THEN [out |-> stmt, use |-> Use(1, 1, 1, 0)]
    ELSE IF fault = "commit"
        THEN [out |-> Outcome("error", t, 0), use |-> Use(1, 1, 1, 0)]
    ELSE [out |-> stmt, use |-> Use(1, 1, 1, 1)]

-----------------------------------------------------------------------------
(* Handlers *)

\* column_allowed without the allow-list
column_allowed_any(column_name) == TRUE

\* `column_name not in EDITABLE_COLS` is false
column_allowed(column_name) == column_name \in EDITABLE_COLS

\* POST /update_mls_data
update_mls_data(data, fault) ==
    LET mls_point_code == DictGet(data, "MLS_Point_Code")
        column_name == DictGet(data, "column")
        new_value == DictGet(data, "value")
        try == Attempt(table, ExecUpdate(table, column_name, new_value, mls_point_code), fault)
    IN  /\ before' = table
        /\ IF ~Truthy(mls_point_code) \/ ~Truthy(column_name) \/ new_value = None
            THEN /\ last' = Response("update", data, "none", 400, "Missing data", {}, NoRow, NoUse)
                 /\ UNCHANGED <<table, openConns, openCursors>>
            ELSE IF ~column_allowed(column_name)
            THEN /\ last' = Response("update", data, "none", 403,
                                     "Column is not editable or does not exist.", {}, NoRow, NoUse)
                 /\ UNCHANGED <<table, openConns, openCursors>>
            ELSE /\ table' = try.out.table
                 /\ Release(try.use)
                 /\ last' =
                      IF try.out.raised # "none"
                      THEN Response("update", data, fault, 500, "Database error", {}, NoRow, try.use)
                      ELSE IF try.out.rowcount = 0
                      THEN Response("update", data, fault, 404,
                                    "No record found or no changes made.", {}, NoRow, try.use)
                      ELSE Response("update", data, fault, 200,
                                    "Data updated successfully", {}, NoRow, try.use)

\* cols_to_insert that keeps the point code alone
cols_to_insert_key_only(data) == {col \in DOMAIN data : col = "MLS_Point_Code"}

\* the keys of the body that are in EDITABLE_COLS
cols_to_insert(data) == {col \in DOMAIN data : col \in EDITABLE_COLS}

\* point_code_missing without the test for an empty value
point_code_missing_key_only(data) == "MLS_Point_Code" \notin cols_to_insert(data)

\* point_code_missing that asks for the point name as well
point_code_or_name_missing(data) ==
    \/ "MLS_Point_Code" \notin cols_to_insert(data)
    \/ ~Truthy(data["MLS_Point_Code"])
    \/ "MLS_Point_Name" \notin cols_to_insert(data)

\* primary_key_violation that recognises no message
primary_key_violation_never(raised) == FALSE

\* `"Violation of PRIMARY KEY constraint" in str(e)` for an IntegrityError
primary_key_violation(raised) == raised = "pk"

\* `"MLS_Point_Code" not in cols_to_insert or not data["MLS_Point_Code"]`
point_code_missing(data) ==
    "MLS_Point_Code" \notin cols_to_insert(data) \/ ~Truthy(data["MLS_Point_Code"])

\* POST /add_mls_data
add_mls_data(data, fault) ==
    LET cols == cols_to_insert(data)
        try == Attempt(table, ExecInsert(table, cols, data), fault)
    IN  /\ before' = table
        /\ IF DOMAIN data = {}
            THEN /\ last' = Response("add", data, "none", 400, "No data provided", {}, NoRow, NoUse)
                 /\ UNCHANGED <<table, openConns, openCursors>>
            ELSE IF point_code_missing(data)
            THEN /\ last' = Response("add", data, "none", 400,
                                     "MLS_Point_Code is required for adding a new record.",
                                     {}, NoRow, NoUse)
                 /\ UNCHANGED <<table, openConns, openCursors>>
            ELSE /\ table' = try.out.table
                 /\ Release(try.use)
                 /\ last' =
                      IF try.out.raised = "none"
                      THEN Response("add", data, fault, 200,
                                    "New record added successfully", {}, NoRow, try.use)
                      ELSE IF primary_key_violation(try.out.raised)
                      THEN Response("add", data, fault, 409,
                                    "MLS Point Code already exists. Please use a unique code.",
                                    {}, NoRow, try.use)
                      ELSE IF try.out.raised \in {"pk", "integrity"}
                      THEN Response("add", data, fault, 500, "Database error", {}, NoRow, try.use)
                      ELSE Response("add", data, fault, 500, "Error adding record", {}, NoRow, try.use)

\* POST /delete_mls_data
delete_mls_data(data, fault) ==
    LET mls_point_code == DictGet(data, "MLS_Point_Code")
        try == Attempt(table, ExecDelete(table, mls_point_code), fault)
    IN  /\ before' = table
        /\ IF ~Truthy(mls_point_code)
            THEN /\ last' = Response("delete", data, "none", 400,
                                     "MLS Point Code is required for deletion", {}, NoRow, NoUse)
                 /\ UNCHANGED <<table, openConns, openCursors>>
            ELSE /\ table' = try.out.table
                 /\ Release(try.use)
                 /\ last' =
                      IF try.out.raised # "none"
                      THEN Response("delete", data, fault, 500, "Database error", {}, NoRow, try.use)
                      ELSE IF try.out.rowcount = 0
                      THEN Response("delete", data, fault, 404, "Record not found", {}, NoRow, try.use)
                      ELSE Response("delete", data, fault, 200,
                                    "Record deleted successfully", {}, NoRow, try.use)

\* a query of pd.read_sql fails when no connection is obtained or the
\* statement raises; a query has no constraint to violate and no commit
read_fails(fault) == fault \in {"connect", "execute"}

\* GET /details/<mls_code>
details(mls_code, fault) ==
    LET info == get_details(table, mls_code, read_fails(fault))
        use == Use(IF fault = "connect" THEN 0 ELSE 1, 0, IF fault = "connect" THEN 0 ELSE 1, 0)
    IN  /\ before' = table
        /\ last' = IF info = NoRow
                   THEN Response("details", [mls_code |-> mls_code], fault, 404,
                                 "No details found", {}, info, use)
                   ELSE Response("details", [mls_code |-> mls_code], fault, 200,
                                 "details.html", {}, info, use)
        /\ openConns' = openConns + use.opened - finally_close(use.opened > 0, FALSE).conns
        /\ UNCHANGED <<table, openCursors>>

\* GET or POST /: the records of the list view.  A POST filters by the four
\* form fields, each "All" when the form lacks it; a GET fetches all records.
index(method, form, fault) ==
    LET selected_district == FormGet(form, "district_name", "All")
        selected_mandal == FormGet(form, "mandal_name", "All")
        selected_mls_name == FormGet(form, "mls_point_name", "All")
        selected_mls_code == FormGet(form, "mls_point_code", "All")
        records_df ==
            IF method = "POST"
            THEN get_filtered_summary(table, selected_district, selected_mandal,
                                      selected_mls_name, selected_mls_code, read_fails(fault))
            ELSE get_filtered_summary(table, None, None, None, None, read_fails(fault))
        use == Use(IF fault = "connect" THEN 0 ELSE 1, 0, IF fault = "connect" THEN 0 ELSE 1, 0)
    IN  /\ before' = table
        /\ last' = Response("index", [method |-> method, form |-> form], fault, 200,
                            "index.html", records_df, NoRow, use)
        /\ openConns' = openConns + use.opened - finally_close(use.opened > 0, FALSE).conns
        /\ UNCHANGED <<table, openCursors>>

-----------------------------------------------------------------------------
(* Requests *)

\* column and value of an update request
UpdatePairs ==
    {<<Absent, "Y">>, <<ForeignCol, "Y">>, <<"District_Name", None>>,
     <<"District_Name", "Y">>, <<"MLS_Point_Code", "">>}
    \cup {<<"MLS_Point_Code", c>> : c \in PointCodes}

UpdateBodies ==
    {MkDict([MLS_Point_Code |-> c, column |-> p[1], value |-> p[2]]) :
        c \in {Absent} \cup PointCodes, p \in UpdatePairs}

AddChoices(key) ==
    CASE key = "MLS_Point_Code" -> {None, ""} \cup PointCodes
      [] key = "MLS_Point_Name" -> {"Y"}
      [] key = ForeignCol -> {"X"}

AddBodies == Dicts({"MLS_Point_Code", "MLS_Point_Name", ForeignCol}, AddChoices)

DeleteChoices(key) == {""} \cup PointCodes

DeleteBodies == Dicts({"MLS_Point_Code"}, DeleteChoices)

\* the codes of GET /details/<mls_code>: those in use and one that is not
DetailCodes == PointCodes \cup {"MLS999"}

\* a few forms of the list view
SomeForms == {[district_name |-> "Y"], [mls_point_code |-> AllCodes[1], district_name |-> "All"]}

-----------------------------------------------------------------------------
(* Specification: requests against a reachable database *)

Init ==
    /\ table = {}
    /\ before = table
    /\ last = Response("start", <<>>, "none", 0, "", {}, NoRow, NoUse)
    /\ openConns = 0
    /\ openCursors = 0

\* the database is reachable and raises only what its constraints demand
Next ==
    \/ \E data \in UpdateBodies : update_mls_data(data, "none")
    \/ \E data \in AddBodies : add_mls_data(data, "none")
    \/ \E data \in DeleteBodies : delete_mls_data(data, "none")
    \/ \E mls_code \in DetailCodes : details(mls_code, "none")
    \/ \E form \in SomeForms : index("POST", form, "none")
    \/ index("GET", <<>>, "none")

Spec == Init /\ [][Next]_vars

-----------------------------------------------------------------------------
(* Specification: the database may fail a request *)

FaultUpdateBodies ==
    {MkDict([MLS_Point_Code |-> c, column |-> p[1], value |-> p[2]]) :
        c \in {Absent, AllCodes[1]},
        p \in {<<Absent, "Y">>, <<ForeignCol, "Y">>, <<"District_Name", "Y">>,
               <<"MLS_Point_Code", AllCodes[2]>>}}

FaultAddBodies ==
    {MkDict([MLS_Point_Code |-> c, MLS_Point_Name |-> n]) :
        c \in {Absent, AllCodes[1], AllCodes[2]}, n \in {Absent, "Y"}}

FaultDeleteBodies == {<<>>, [MLS_Point_Code |-> AllCodes[1]]}

NextFault ==
    \E fault \in Faults \cup {"none"} :
        \/ \E data \in FaultUpdateBodies : update_mls_data(data, fault)
        \/ \E data \in FaultAddBodies : add_mls_data(data, fault)
        \/ \E data \in FaultDeleteBodies : delete_mls_data(data, fault)
        \/ details(AllCodes[1], fault)
        \/ \E form \in SomeForms : index("POST", form, fault)
        \/ index("GET", <<>>, fault)

SpecFault == Init /\ [][NextFault]_vars

-----------------------------------------------------------------------------
(* Specification: one request of the list view against any table *)

\* name, district and mandal of a row
RowFields == {None, "X"} \X {"", "X", "Y"} \X {"X", "Y"}

\* the tables with at most one row for each point code
IndexTables ==
    UNION {{{MkRow(c, f[c][1], f[c][2], f[c][3]) : c \in codes} : f \in [codes -> RowFields]} :
                codes \in SUBSET PointCodes}

FormChoices(key) ==
    CASE key = "district_name" -> {"All", "", "X", "Y"}
      [] key = "mandal_name" -> {"All", "", "X", "Y"}
      [] key = "mls_point_name" -> {"All", "", "X", "Y"}
      [] key = "mls_point_code" -> {"All", ""} \cup PointCodes

Forms == Dicts({"district_name", "mandal_name", "mls_point_name", "mls_point_code"}, FormChoices)

InitIndex ==
    /\ table \in IndexTables
    /\ before = table
    /\ last = Response("start", <<>>, "none", 0, "", {}, NoRow, NoUse)
    /\ openConns = 0
    /\ openCursors = 0

NextIndex ==
    /\ last.op = "start"
    /\ \/ \E form \in Forms : index("POST", form, "none")
       \/ index("GET", <<>>, "none")

SpecIndex == InitIndex /\ [][NextIndex]_vars

-----------------------------------------------------------------------------
(* Properties *)

\* the fields of the last request
ReqCode == DictGet(last.data, "MLS_Point_Code")
ReqColumn == DictGet(last.data, "column")
ReqValue == DictGet(last.data, "value")

\* the rows the last request addressed, as they were when it arrived
Addressed == RowsWithCode(before, ReqCode)

\* C1 as stated: an update that names a column outside EDITABLE_COLS is
\* answered 403 whatever its point code and value, and executes no UPDATE.
C1_Original ==
    (last.op = "update" /\ Truthy(ReqColumn) /\ ReqColumn \notin EDITABLE_COLS)
        => (last.status = 403 /\ last.executed = 0 /\ table = before)

\* C1 amended: an update whose column is outside EDITABLE_COLS executes no
\* UPDATE and leaves the table as it was; it is answered 403 when the point
\* code and the column are non-empty and the value is not null, and 400
\* (missing data) otherwise.
C1_ForbiddenColumn ==
    (last.op = "update" /\ ReqColumn \notin EDITABLE_COLS)
        => /\ last.executed = 0
           /\ last.opened = 0
           /\ table = before
           /\ last.status =
                IF Truthy(ReqCode) /\ Truthy(ReqColumn) /\ ReqValue # None
                THEN 403 ELSE 400

C1_Witness ==
    /\ last.op = "update"
    /\ ReqColumn = ForeignCol
    /\ Addressed # {}
    /\ last.status = 403

\* C2: an add whose body has no MLS_Point_Code, or has it empty or null, is
\* answered 400, opens no connection, executes no INSERT and leaves the
\* table as it was.
C2_MissingPointCode ==
    (last.op = "add" /\ ~Truthy(ReqCode))
        => /\ last.status = 400
           /\ last.opened = 0
           /\ last.executed = 0
           /\ table = before

C2_Witness ==
    /\ last.op = "add"
    /\ "MLS_Point_Code" \in DOMAIN last.data
    /\ ReqCode = ""
    /\ "MLS_Point_Name" \in DOMAIN last.data
    /\ last.status = 400

\* C3 as stated: an add whose MLS_Point_Code equals the point code of a row
\* of the table is answered 409 and leaves the table as it was.
C3_Original ==
    (last.op = "add" /\ "MLS_Point_Code" \in DOMAIN last.data /\ Addressed # {})
        => (last.status = 409 /\ table = before)

\* C3 amended: an add whose MLS_Point_Code is non-empty and equals the point
\* code of a row of the table is answered 409; an add whose MLS_Point_Code
\* is the empty string and equals the (empty) point code of a row is
\* answered 400; either way the table is left as it was.
C3_DuplicateKey ==
    (last.op = "add" /\ "MLS_Point_Code" \in DOMAIN last.data /\ Addressed # {})
        => /\ last.status = IF ReqCode = "" THEN 400 ELSE 409
           /\ table = before

C3_Witness ==
    /\ last.op = "add"
    /\ Addressed # {}
    /\ last.status = 409
    /\ \E r \in Addressed : r["MLS_Point_Name"] # DictGet(last.data, "MLS_Point_Name")

\* C4: a delete with a non-empty point code that matches no row is answered
\* 404 and leaves the rows as they were; one that matches a row is answered
\* 200, removes exactly that row, and get_details for the code then
\* returns None.
C4_Delete ==
    (last.op = "delete" /\ Truthy(ReqCode))
        => IF Addressed = {}
           THEN last.status = 404 /\ table = before
           ELSE /\ last.status = 200
                /\ Cardinality(Addressed) = 1
                /\ table = before \ Addressed
                /\ Cardinality(table) = Cardinality(before) - 1
                /\ \A failed \in BOOLEAN : get_details(table, ReqCode, failed) = NoRow

C4_Witness ==
    /\ last.op = "delete"
    /\ last.status = 200
    /\ Addressed # {}
    /\ table # {}

\* the argument get_filtered_summary received for a form field of the last
\* list view: None on a GET, the field or "All" on a POST
FilterArg(field) ==
    IF last.data["method"] = "POST" THEN FormGet(last.data["form"], field, "All") ELSE None

\* the column each form field filters
FilterColumn(field) ==
    CASE field = "district_name" -> "District_Name"
      [] field = "mandal_name" -> "Mandal_Name"
      [] field = "mls_point_name" -> "MLS_Point_Name"
      [] field = "mls_point_code" -> "MLS_Point_Code"

FilterFields == {"district_name", "mandal_name", "mls_point_name", "mls_point_code"}

\* C5 as stated: the list view returns exactly the rows that equal every
\* argument that is neither absent nor "All" on its column.
C5_Original ==
    last.op = "index"
        => last.records =
            {r \in table : \A f \in FilterFields :
                FilterArg(f) \notin {None, "All"} => r[FilterColumn(f)] = FilterArg(f)}

\* C5 amended: the list view returns exactly the rows that equal every
\* argument that is neither absent, nor the empty string, nor "All" on its
\* column; with all four absent, empty or "All" it returns the entire table.
C5_Filter ==
    last.op = "index"
        => /\ last.records =
                {r \in table : \A f \in FilterFields :
                    FilterArg(f) \notin {None, "", "All"} => r[FilterColumn(f)] = FilterArg(f)}
           /\ (\A f \in FilterFields : FilterArg(f) \in {None, "", "All"})
                => last.records = table

C5_Witness ==
    /\ last.op = "index"
    /\ FilterArg("district_name") = "X"
    /\ FilterArg("mandal_name") = "Y"
    /\ FilterArg("mls_point_name") = "All"
    /\ last.records # {}
    /\ last.records # table

\* C6: after an add that was accepted for a point code the table did not
\* hold, get_details for that code returns a row that holds the supplied
\* value on every supplied key of EDITABLE_COLS and null on every other
\* column, and nothing supplied under a key outside EDITABLE_COLS.
C6_RoundTrip ==
    (last.op = "add" /\ last.status = 200 /\ Addressed = {})
        => LET info == get_details(table, ReqCode, FALSE)
           IN  /\ info # NoRow
               /\ DOMAIN info = TableCols
               /\ \A col \in TableCols :
                    info[col] = IF col \in DOMAIN last.data /\ col \in EDITABLE_COLS
                                THEN last.data[col] ELSE None
               /\ \A key \in DOMAIN last.data \ EDITABLE_COLS :
                    /\ key \notin DOMAIN info
                    /\ \A col \in TableCols :
                        info[col] = last.data[key]
                            => col \in DOMAIN last.data /\ last.data[col] = last.data[key]

C6_Witness ==
    /\ last.op = "add"
    /\ last.status = 200
    /\ DOMAIN last.data = {"MLS_Point_Code", "MLS_Point_Name", ForeignCol}
    /\ before # {}
    /\ get_details(table, ReqCode, FALSE)["MLS_Point_Name"] = "Y"

Mutations == {"update", "add", "delete"}

\* C8 as stated: each of update, add and delete, on every exit path, opens
\* a connection, executes exactly one statement, commits, and leaves no
\* connection or cursor open.
C8_Original ==
    last.op \in Mutations
        => /\ last.opened = 1
           /\ last.executed = 1
           /\ last.commits = 1
           /\ openConns = 0
           /\ openCursors = 0

\* C8 amended: each of update, add and delete leaves no connection or cursor
\* open on any exit path.  A request that fails validation (400, 403) opens
\* no connection and executes nothing; every other request opens at most
\* one connection and executes at most one statement; the statement is
\* committed exactly when the answer is success or not-found (200, 404),
\* and never on a conflict or database error (409, 500).
C8_Handles ==
    last.op \in Mutations
        => /\ openConns = 0
           /\ openCursors = 0
           /\ last.opened <= 1
           /\ last.cursors <= last.opened
           /\ last.executed <= last.cursors
           /\ last.commits <= last.executed
           /\ last.status \in {400, 403} => last.opened = 0 /\ last.executed = 0
           /\ last.status \in {200, 404}
                => last.opened = 1 /\ last.executed = 1 /\ last.commits = 1
           /\ last.status \in {409, 500} => last.commits = 0

C8_Witness ==
    /\ last.op = "add"
    /\ last.fault = "execute"
    /\ last.status = 500
    /\ last.opened = 1
    /\ last.executed = 1

\* C9 as stated: an add whose body lacks MLS_Point_Code or lacks
\* MLS_Point_Name is answered 400 and inserts no row.
C9_Original ==
    (last.op = "add"
        /\ ("MLS_Point_Code" \notin DOMAIN last.data \/ "MLS_Point_Name" \notin DOMAIN last.data))
        => (last.status = 400 /\ table = before)

\* C9 amended: add requires the point code only.  It answers 400 exactly
\* when the body lacks MLS_Point_Code or has it empty or null, and then
\* inserts no row; a body that lacks MLS_Point_Name and carries a non-empty
\* point code the table does not hold is accepted and its row inserted.
C9_RequiresCodeOnly ==
    last.op = "add"
        => /\ last.status = 400 <=> ~Truthy(ReqCode)
           /\ last.status = 400 => table = before
           /\ ("MLS_Point_Name" \notin DOMAIN last.data /\ Truthy(ReqCode) /\ Addressed = {})
                => /\ last.status = 200
                   /\ Cardinality(table) = Cardinality(before) + 1
                   /\ \E r \in table \ before :
                        r["MLS_Point_Code"] = ReqCode /\ r["MLS_Point_Name"] = None

C9_Witness ==
    /\ last.op = "add"
    /\ "MLS_Point_Name" \notin DOMAIN last.data
    /\ last.status = 200
    /\ RowsWithCode(table, ReqCode) # {}

\* the row the last update addressed with its column set to the new value
Updated(r) == [r EXCEPT ![ReqColumn] = ReqValue]

\* C10 as stated: an update with a non-empty point code, a column of
\* EDITABLE_COLS and a non-null value is answered 200 when a row has the
\* code, that row then holds the value on the column and nothing else has
\* changed; it is answered 404 and changes nothing when no row has the code.
C10_Original ==
    (last.op = "update" /\ Truthy(ReqCode) /\ ReqColumn \in EDITABLE_COLS /\ ReqValue # None)
        => IF Addressed = {}
           THEN last.status = 404 /\ table = before
           ELSE /\ last.status = 200
                /\ table = (before \ Addressed) \cup {Updated(r) : r \in Addressed}

\* C10 amended: as stated, except that an update of MLS_Point_Code to the
\* point code of another row is answered 500 (database error) and changes
\* nothing; in every other case the row is found again by get_details under
\* the point code it has after the update.
C10_Update ==
    (last.op = "update" /\ Truthy(ReqCode) /\ ReqColumn \in EDITABLE_COLS /\ ReqValue # None)
        => IF Addressed = {}
           THEN last.status = 404 /\ table = before
           ELSE IF ReqColumn = "MLS_Point_Code" /\ RowsWithCode(before \ Addressed, ReqValue) # {}
           THEN last.status = 500 /\ table = before
           ELSE /\ last.status = 200
                /\ Cardinality(Addressed) = 1
                /\ table = (before \ Addressed) \cup {Updated(r) : r \in Addressed}
                /\ \A r \in Addressed :
                    /\ get_details(table, Updated(r)["MLS_Point_Code"], FALSE) = Updated(r)
                    /\ Updated(r)[ReqColumn] = ReqValue
                    /\ \A col \in TableCols \ {ReqColumn} : Updated(r)[col] = r[col]

C10_Witness ==
    /\ last.op = "update"
    /\ ReqColumn = "District_Name"
    /\ ReqValue = "Y"
    /\ last.status = 200
    /\ Cardinality(table) >= 2
    /\ table # before

\* Under SpecFault: a mutation the database fails is answered 500 (409 when
\* the INSERT met a held key before the commit could fail) and leaves the
\* table as it was; a list view whose query fails shows no records and a
\* details view whose query fails answers 404.
FaultsChangeNothing ==
    last.fault # "none"
        => /\ table = before
           /\ last.op \in Mutations
                => \/ last.status = 500
                   \/ last.fault = "commit" /\ last.op = "add" /\ last.status = 409
           /\ (last.op = "index" /\ read_fails(last.fault)) => last.records = {}
           /\ (last.op = "details" /\ read_fails(last.fault))
                => last.status = 404 /\ last.info = NoRow

====
